---- MODULE Spec2Model ----
(***************************************************************************)
(* PromptTemplate (src/prompt/prompt.rs): a template string, a declared    *)
(* list of variable names and a TemplateFormat, with the format operation  *)
(* and the prompt_args! builder of its argument map.                       *)
(*                                                                         *)
(* Strings are sequences of one-character strings.  A HashMap<&str,&str>   *)
(* is a function from its keys to their values together with the order in  *)
(* which the map yields its pairs, which the hasher fixes when the map is   *)
(* built and which the caller cannot choose.  Variable names hold no        *)
(* braces.                                                                 *)
(*                                                                         *)
(*   constructed      the arguments PromptTemplate::new was given          *)
(*   self             the PromptTemplate behind the Arc                    *)
(*   heap             the String buffers: self.template and, per call,     *)
(*                    format's local prompt                                *)
(*   pc               where each caller stands                             *)
(*   literal          the pairs a caller wrote in prompt_args!             *)
(*   input_variables  the map each caller passes to format                 *)
(*   iter             the order in which that map yields its pairs         *)
(*   idx              the position of format's current loop                *)
(*   prompt           the buffer format's prompt is                        *)
(*   result           what format returned                                 *)
(***************************************************************************)
EXTENDS Integers, Sequences, FiniteSets, TLC

VARIABLES constructed, self, heap, pc, literal, input_variables, iter, idx, prompt, result

vars == <<constructed, self, heap, pc, literal, input_variables, iter, idx, prompt, result>>

----------------------------------------------------------------------------
(* Bounds of the model. *)

NumCallers == 2
MaxPieces == 3
MaxPairs == 2
MaxVars == 2

----------------------------------------------------------------------------
(* Strings. *)

LB == "{"
RB == "}"

Keys == {<<"a">>, <<"b">>}

SeqsUpTo(S, n) == UNION {[1..k -> S] : k \in 0..n}

RECURSIVE Concat(_)
Concat(ss) == IF ss = <<>> THEN <<>> ELSE Head(ss) \o Concat(Tail(ss))

Perms(S) == {f \in [1..Cardinality(S) -> S] :
               \A i, j \in 1..Cardinality(S) : i # j => f[i] # f[j]}

----------------------------------------------------------------------------
(* The program. *)

TemplateFormat == {"FString", "Jinja2"}

AllCallers == 1..NumCallers
SelfLoc == 0
Loc == {SelfLoc} \cup AllCallers
NoLoc == -1

NoResult == [tag |-> "None"]
Ok(s) == [tag |-> "Ok", value |-> s]
Err(key) == [tag |-> "Err", missing |-> key]

EmptyMap == [k \in {} |-> <<>>]

(* PromptTemplate::new: the struct behind the Arc; its template String is   *)
(* the buffer at SelfLoc.                                                  *)
new(template, variables, format) ==
    [template |-> SelfLoc, variables |-> variables, format |-> format]

(* Prompt::template, as format uses it: the clone is a fresh String, which  *)
(* lives in the calling frame's own buffer.                                *)
templateShared(c) == SelfLoc
template(c) == c

(* HashMap::contains_key *)
contains_keyIgnored(m, key) == TRUE
contains_keyNonEmpty(m, key) == key \in DOMAIN m /\ m[key] # <<>>
contains_key(m, key) == key \in DOMAIN m

(* HashMap::insert *)
insertKeepFirst(m, key, value) ==
    [x \in DOMAIN m \cup {key} |-> IF x \in DOMAIN m THEN m[x] ELSE value]
insert(m, key, value) ==
    [x \in DOMAIN m \cup {key} |-> IF x = key THEN value ELSE m[x]]

(* prompt_args!: one insert per pair, in the order written. *)
RECURSIVE prompt_args(_)
prompt_args(ps) ==
    IF ps = <<>> THEN EmptyMap
    ELSE LET n == Len(ps)
             args == prompt_args(SubSeq(ps, 1, n - 1))
         IN insert(args, ps[n][1], ps[n][2])

(* The placeholder token of a key: format!("{{{}}}", key) is the key in one *)
(* pair of braces, format!("{{{{{}}}}}", key) the key in two.              *)
TokenAlwaysDouble(format, key) == <<LB, LB>> \o key \o <<RB, RB>>
Token(format, key) ==
    IF format = "FString" THEN <<LB>> \o key \o <<RB>>
    ELSE <<LB, LB>> \o key \o <<RB, RB>>

MatchAt(s, from, i) ==
    /\ i + Len(from) - 1 <= Len(s)
    /\ SubSeq(s, i, i + Len(from) - 1) = from

(* str::replace for a non-empty pattern (a token holds at least its         *)
(* braces): the matches are found scanning from the left, each search       *)
(* resuming after the previous match.                                      *)
RECURSIVE ReplaceFrom(_, _, _, _)
ReplaceFrom(s, from, to, i) ==
    IF i > Len(s) THEN <<>>
    ELSE IF MatchAt(s, from, i) THEN to \o ReplaceFrom(s, from, to, i + Len(from))
    ELSE <<s[i]>> \o ReplaceFrom(s, from, to, i + 1)

RECURSIVE ReplaceFirstFrom(_, _, _, _)
ReplaceFirstFrom(s, from, to, i) ==
    IF i > Len(s) THEN <<>>
    ELSE IF MatchAt(s, from, i) THEN to \o SubSeq(s, i + Len(from), Len(s))
    ELSE <<s[i]>> \o ReplaceFirstFrom(s, from, to, i + 1)

replaceFirst(s, from, to) == ReplaceFirstFrom(s, from, to, 1)
replace(s, from, to) == ReplaceFrom(s, from, to, 1)

(* format, run from its first line to its return with nothing else        *)
(* running: the check of the declared variables, then one replace per pair *)
(* in the order the map yields them.                                       *)
RECURSIVE SubstituteAll(_, _, _, _)
SubstituteAll(s, f, m, order) ==
    IF order = <<>> THEN s
    ELSE LET k == Head(order)
         IN SubstituteAll(replace(s, Token(f, k), m[k]), f, m, Tail(order))

RECURSIVE FirstMissing(_, _, _)
FirstMissing(vs, m, i) ==
    IF i > Len(vs) THEN 0
    ELSE IF ~contains_key(m, vs[i]) THEN i
    ELSE FirstMissing(vs, m, i + 1)

format(t, vs, f, m, order) ==
    LET i == FirstMissing(vs, m, 1)
    IN IF i # 0 THEN Err(vs[i]) ELSE Ok(SubstituteAll(t, f, m, order))

----------------------------------------------------------------------------
(* The state after construction: one shared PromptTemplate, no call in     *)
(* progress.                                                               *)

InitWith(Templates, VarLists) ==
    /\ \E t \in Templates, vs \in VarLists, f \in TemplateFormat :
          /\ constructed = [template |-> t, variables |-> vs, format |-> f]
          /\ self = new(t, vs, f)
          /\ heap = [l \in Loc |-> IF l = SelfLoc THEN t ELSE <<>>]
    /\ pc = [c \in AllCallers |-> "idle"]
    /\ literal = [c \in AllCallers |-> <<>>]
    /\ input_variables = [c \in AllCallers |-> EmptyMap]
    /\ iter = [c \in AllCallers |-> <<>>]
    /\ idx = [c \in AllCallers |-> 0]
    /\ prompt = [c \in AllCallers |-> NoLoc]
    /\ result = [c \in AllCallers |-> NoResult]

(* A caller builds its argument map with prompt_args!.  The order in which *)
(* the map will yield its pairs is fixed here and is any order.            *)
BuildArgs(c, ps) ==
    /\ pc[c] = "idle"
    /\ LET args == prompt_args(ps)
       IN /\ input_variables' = [input_variables EXCEPT ![c] = args]
          /\ \E order \in Perms(DOMAIN args) : iter' = [iter EXCEPT ![c] = order]
    /\ literal' = [literal EXCEPT ![c] = ps]
    /\ pc' = [pc EXCEPT ![c] = "built"]
    /\ UNCHANGED <<constructed, self, heap, idx, prompt, result>>

(* format, line 44: let mut prompt = self.template(); *)
FormatCall(c) ==
    /\ pc[c] = "built"
    /\ LET p == template(c)
       IN /\ prompt' = [prompt EXCEPT ![c] = p]
          /\ heap' = [heap EXCEPT ![p] = heap[self.template]]
    /\ idx' = [idx EXCEPT ![c] = 1]
    /\ literal' = [literal EXCEPT ![c] = <<>>]
    /\ pc' = [pc EXCEPT ![c] = "check"]
    /\ UNCHANGED <<constructed, self, input_variables, iter, result>>

(* format, lines 47-51: one turn of the loop over the declared variables. *)
CheckVariable(c) ==
    /\ pc[c] = "check"
    /\ IF idx[c] > Len(self.variables)
       THEN /\ pc' = [pc EXCEPT ![c] = "subst"]
            /\ idx' = [idx EXCEPT ![c] = 1]
            /\ UNCHANGED result
       ELSE LET key == self.variables[idx[c]]
            IN IF ~contains_key(input_variables[c], key)
               THEN /\ result' = [result EXCEPT ![c] = Err(key)]
                    /\ pc' = [pc EXCEPT ![c] = "done"]
                    /\ UNCHANGED idx
               ELSE /\ idx' = [idx EXCEPT ![c] = idx[c] + 1]
                    /\ UNCHANGED <<pc, result>>
    /\ UNCHANGED <<constructed, self, heap, literal, input_variables, iter, prompt>>

(* format, lines 53-59: one turn of the loop over the map's pairs. *)
Substitute(c) ==
    /\ pc[c] = "subst"
    /\ idx[c] <= Len(iter[c])
    /\ LET k == iter[c][idx[c]]
           value == input_variables[c][k]
           key == Token(self.format, k)
       IN heap' = [heap EXCEPT ![prompt[c]] = replace(heap[prompt[c]], key, value)]
    /\ idx' = [idx EXCEPT ![c] = idx[c] + 1]
    /\ UNCHANGED <<constructed, self, pc, literal, input_variables, iter, prompt, result>>

(* format, line 61: Ok(prompt) *)
Return(c) ==
    /\ pc[c] = "subst"
    /\ idx[c] > Len(iter[c])
    /\ result' = [result EXCEPT ![c] = Ok(heap[prompt[c]])]
    /\ pc' = [pc EXCEPT ![c] = "done"]
    /\ UNCHANGED <<constructed, self, heap, literal, input_variables, iter, idx, prompt>>

(* The caller drops the result, its map and its prompt String, and may     *)
(* call again.                                                             *)
Drop(c) ==
    /\ pc[c] = "done"
    /\ pc' = [pc EXCEPT ![c] = "idle"]
    /\ heap' = [heap EXCEPT ![c] = <<>>]
    /\ input_variables' = [input_variables EXCEPT ![c] = EmptyMap]
    /\ iter' = [iter EXCEPT ![c] = <<>>]
    /\ idx' = [idx EXCEPT ![c] = 0]
    /\ prompt' = [prompt EXCEPT ![c] = NoLoc]
    /\ result' = [result EXCEPT ![c] = NoResult]
    /\ UNCHANGED <<constructed, self, literal>>

----------------------------------------------------------------------------
(* Spec: one caller; small templates, every declared list up to MaxVars    *)
(* names, every literal of up to MaxPairs pairs.                           *)

Values == {<<>>, <<"a">>, <<LB, "b", RB>>, <<LB, LB, "b", RB, RB>>}
Pairs == Keys \X Values

Templates ==
    { <<>>,
      <<LB, "a", RB>>,
      <<LB, LB, "a", RB, RB>>,
      <<LB, "a", RB, LB, "b", RB>>,
      <<LB, LB, "a", RB, RB, "b", LB, LB, "b", RB, RB>>,
      <<"a", LB, "b", RB, LB, "a", RB>> }

Init == InitWith(Templates, SeqsUpTo(Keys, MaxVars))

Next ==
    \/ \E ps \in SeqsUpTo(Pairs, MaxPairs) : BuildArgs(1, ps)
    \/ FormatCall(1)
    \/ CheckVariable(1)
    \/ Substitute(1)
    \/ Return(1)
    \/ Drop(1)

Spec == Init /\ [][Next]_vars

----------------------------------------------------------------------------
(* SpecOne: one caller and maps of at most one pair; the templates are     *)
(* every string made of up to MaxPieces pieces, and the templates of the   *)
(* tests.                                                                  *)

Name == <<"n", "a", "m", "e">>
World == <<"w", "o", "r", "l", "d">>
HelloWorld == <<"H", "e", "l", "l", "o", " ">> \o World \o <<"!">>
HelloFString == <<"H", "e", "l", "l", "o", " ", LB>> \o Name \o <<RB, "!">>
HelloJinja2 == <<"H", "e", "l", "l", "o", " ", LB, LB>> \o Name \o <<RB, RB, "!">>

Pieces ==
    { <<LB>>, <<RB>>, <<"a">>, <<"b">>,
      <<LB, "a", RB>>,
      <<LB, LB, "a", RB, RB>> }

TemplatesOne ==
    {Concat(ps) : ps \in SeqsUpTo(Pieces, MaxPieces)} \cup {HelloFString, HelloJinja2}

ValuesOne ==
    { <<>>, <<"b">>, <<LB>>, <<RB>>, <<LB, "a", RB>>, <<LB, LB, "a", RB, RB>> }

LiteralsOne ==
    {<<>>, << <<Name, World>> >>} \cup {<< <<(<<"a">>), v>> >> : v \in ValuesOne}

InitOne == InitWith(TemplatesOne, {<<>>, << <<"a">> >>, <<Name>>})

NextOne ==
    \/ \E ps \in LiteralsOne : BuildArgs(1, ps)
    \/ FormatCall(1)
    \/ CheckVariable(1)
    \/ Substitute(1)
    \/ Return(1)
    \/ Drop(1)

SpecOne == InitOne /\ [][NextOne]_vars

----------------------------------------------------------------------------
(* SpecShared: NumCallers callers hold the same Arc<PromptTemplate> and run *)
(* format at once, their steps interleaved in any way.                     *)

TemplatesShared ==
    { <<LB, "a", RB>>,
      <<LB, "a", RB, LB, "b", RB>>,
      <<LB, LB, "a", RB, RB, LB, "a", RB>> }

LiteralsShared ==
    { <<>>,
      << <<(<<"a">>), <<"b">>>> >>,
      << <<(<<"a">>), <<>>>> >>,
      << <<(<<"a">>), <<LB, "b", RB>>>>, <<(<<"b">>), <<"a">>>> >> }

InitShared == InitWith(TemplatesShared, {<<>>, << <<"a">> >>})

NextShared ==
    \E c \in AllCallers :
        \/ \E ps \in LiteralsShared : BuildArgs(c, ps)
        \/ FormatCall(c)
        \/ CheckVariable(c)
        \/ Substitute(c)
        \/ Return(c)
        \/ Drop(c)

SpecShared == InitShared /\ [][NextShared]_vars

----------------------------------------------------------------------------
(* What the claims speak of, stated over positions of the template rather  *)
(* than by scanning it.                                                    *)

(* The places where pat occurs in s. *)
Occ(s, pat) == {i \in 1..(Len(s) - Len(pat) + 1) : SubSeq(s, i, i + Len(pat) - 1) = pat}

(* The placeholder of a name as the formats are described: {name} in the   *)
(* brace style, {{name}} in the double-brace style.                        *)
Placeholder(f, k) ==
    CASE f = "FString" -> <<LB>> \o k \o <<RB>>
      [] f = "Jinja2" -> <<LB, LB>> \o k \o <<RB, RB>>

(* The occurrences in s of the placeholders of the keys of m, each with    *)
(* the value that replaces it.                                             *)
Hits(s, f, m) ==
    {[at |-> x[1], len |-> Len(Placeholder(f, x[2])), to |-> m[x[2]]] :
        x \in {y \in (1..Len(s)) \X DOMAIN m : y[1] \in Occ(s, Placeholder(f, y[2]))}}

Disjoint(H) ==
    \A g, h \in H : g # h => (g.at + g.len <= h.at \/ h.at + h.len <= g.at)

(* s with the span of every hit of H replaced by what the hit carries, all  *)
(* against s itself.                                                       *)
RECURSIVE Rewrite(_, _)
Rewrite(s, H) ==
    IF H = {} THEN s
    ELSE LET h == CHOOSE x \in H : \A g \in H : g.at <= x.at
         IN Rewrite(SubSeq(s, 1, h.at - 1), H \ {h})
               \o h.to \o SubSeq(s, h.at + h.len, Len(s))

RECURSIVE Shift(_, _)
Shift(H, p) ==
    IF H = {} THEN 0
    ELSE LET h == CHOOSE x \in H : TRUE
         IN (IF h.at < p THEN Len(h.to) - h.len ELSE 0) + Shift(H \ {h}, p)

(* Where position p of s lands in Rewrite(s, H). *)
NewPos(H, p) == p + Shift(H, p)

HasAt(r, i, w) == i >= 1 /\ i + Len(w) - 1 <= Len(r) /\ SubSeq(r, i, i + Len(w) - 1) = w

Template == heap[SelfLoc]
Declared == {self.variables[i] : i \in 1..Len(self.variables)}
Missing(c) == {i \in 1..Len(self.variables) : self.variables[i] \notin DOMAIN input_variables[c]}
Returned(c) == pc[c] = "done"
Succeeded(c) == pc[c] = "done" /\ result[c].tag = "Ok"
Failed(c) == pc[c] = "done" /\ result[c].tag = "Err"

(* C1: when a declared variable is not a key of the map, format returns an *)
(* error that names the first such variable of the declared list; the      *)
(* substitution loop is never entered and no string is returned.           *)
C1_MissingVariable ==
    \A c \in AllCallers :
        Missing(c) # {} /\ pc[c] \in {"check", "subst", "done"} =>
            /\ pc[c] # "subst"
            /\ heap[prompt[c]] = Template
            /\ pc[c] = "done" =>
                  LET first == CHOOSE i \in Missing(c) : \A j \in Missing(c) : i <= j
                  IN result[c] = Err(self.variables[first])

C1_Witness ==
    \E c \in AllCallers :
        /\ Failed(c)
        /\ Len(self.variables) = 2
        /\ self.variables[1] # self.variables[2]
        /\ Missing(c) = {1, 2}
        /\ result[c] = Err(self.variables[1])
        /\ DOMAIN input_variables[c] = {}

(* C2: format succeeds exactly when every declared variable is a key of    *)
(* the map; nothing else makes it fail.                                    *)
C2_SucceedsWhenAllPresent ==
    \A c \in AllCallers :
        Returned(c) => (result[c].tag = "Ok" <=> Declared \subseteq DOMAIN input_variables[c])

C2_Witness ==
    \E c \in AllCallers :
        /\ Succeeded(c)
        /\ Template = <<>>
        /\ self.variables = << <<"a">> >>
        /\ DOMAIN input_variables[c] = {<<"a">>, <<"b">>}
        /\ input_variables[c][<<"a">>] = <<>>

(* C4 as claimed: when the value of a equals the token of another key b of *)
(* the map, every token of a in the template is, in the returned string,   *)
(* the token of b.                                                         *)
C4_InsertedTokenVerbatim ==
    \A c \in AllCallers :
        Succeeded(c) =>
            LET m == input_variables[c]
                f == self.format
                H == Hits(Template, f, m)
            IN \A a, b \in DOMAIN m :
                  a # b /\ m[a] = Placeholder(f, b) =>
                      \A p \in Occ(Template, Placeholder(f, a)) :
                          HasAt(result[c].value, NewPos(H, p), Placeholder(f, b))

(* C5 as claimed: the returned string is the template with all             *)
(* replacements made at once against the template, whatever the order in   *)
(* which the map yields its pairs.                                         *)
C5_OrderIndependent ==
    \A c \in AllCallers :
        Succeeded(c) =>
            result[c].value = Rewrite(Template, Hits(Template, self.format, input_variables[c]))

(* The map m less its key k, and the order in which it yields the rest. *)
Less(m, k) == [x \in DOMAIN m \ {k} |-> m[x]]
Skip(order, k) == SelectSeq(order, LAMBDA x : x # k)

(* C6 as claimed: a key that is not declared never makes format fail, every *)
(* token of it in the template is replaced by its value, and when the       *)
(* template holds no token of it the result is that of the call without it. *)
C6_UndeclaredKey ==
    \A c \in AllCallers :
        Returned(c) =>
            LET m == input_variables[c]
                f == self.format
                H == Hits(Template, f, m)
            IN \A k \in DOMAIN m \ Declared :
                  /\ Declared \subseteq DOMAIN m => result[c].tag = "Ok"
                  /\ result[c].tag = "Ok" =>
                        /\ \A p \in Occ(Template, Placeholder(f, k)) :
                              HasAt(result[c].value, NewPos(H, p), m[k])
                        /\ Occ(Template, Placeholder(f, k)) = {} =>
                              result[c] = format(Template, self.variables, f, Less(m, k), Skip(iter[c], k))

(* C7: the map prompt_args! builds has the keys of the pairs written and   *)
(* gives each key the value of the last pair that names it.                *)
C7_LastWriteWins ==
    \A c \in AllCallers :
        pc[c] = "built" =>
            LET ps == literal[c]
                m == input_variables[c]
            IN /\ DOMAIN m = {ps[i][1] : i \in 1..Len(ps)}
               /\ \A i \in 1..Len(ps) :
                     (\A j \in (i + 1)..Len(ps) : ps[j][1] # ps[i][1]) => m[ps[i][1]] = ps[i][2]
               /\ ps = <<>> => m = EmptyMap

C7_Witness ==
    \E c \in AllCallers :
        /\ pc[c] = "built"
        /\ Len(literal[c]) = 2
        /\ literal[c][1][1] = literal[c][2][1]
        /\ literal[c][1][2] # literal[c][2][2]
        /\ input_variables[c][literal[c][1][1]] = literal[c][2][2]

(* C3: with a map of the one pair k -> v, k declared, format returns the   *)
(* template with the span of every token of k replaced by v and the rest   *)
(* of the text as it was; the token is {k} for FString, {{k}} for Jinja2.  *)
C3_EveryTokenReplaced ==
    \A c \in AllCallers :
        Returned(c) =>
            LET m == input_variables[c]
                H == Hits(Template, self.format, m)
            IN \A k \in Declared :
                  DOMAIN m = {k} =>
                      /\ Disjoint(H)
                      /\ result[c] = Ok(Rewrite(Template, H))

C3_Witness ==
    \E c \in AllCallers :
        /\ Succeeded(c)
        /\ Template \in {HelloFString, HelloJinja2}
        /\ self.variables = <<Name>>
        /\ input_variables[c] = prompt_args(<< <<Name, World>> >>)
        /\ result[c].value = HelloWorld

C3_WitnessTwice ==
    \E c \in AllCallers :
        /\ Succeeded(c)
        /\ self.variables = << <<"a">> >>
        /\ DOMAIN input_variables[c] = {<<"a">>}
        /\ Cardinality(Occ(Template, Placeholder(self.format, <<"a">>))) = 2

NoBrace(v) == \A i \in 1..Len(v) : v[i] \notin {LB, RB}
Enclosed(s, p, n) == p > 1 /\ p + n <= Len(s) /\ s[p - 1] = LB /\ s[p + n] = RB

(* C10: with FString and a map of the one pair k -> v, v without braces,   *)
(* every {{k}} of the template is {v} in the result; with Jinja2 every {k}  *)
(* of the template that has no brace pair around it is still {k} in the     *)
(* result.                                                                 *)
C10_SubstringInsideDoubleBraces ==
    \A c \in AllCallers :
        Succeeded(c) =>
            LET m == input_variables[c]
                H == Hits(Template, self.format, m)
                r == result[c].value
            IN \A k \in DOMAIN m :
                  DOMAIN m = {k} =>
                      LET single == <<LB>> \o k \o <<RB>>
                          double == <<LB, LB>> \o k \o <<RB, RB>>
                      IN /\ self.format = "FString" /\ NoBrace(m[k]) =>
                              \A p \in Occ(Template, double) :
                                  HasAt(r, NewPos(H, p), <<LB>> \o m[k] \o <<RB>>)
                         /\ self.format = "Jinja2" =>
                              \A p \in Occ(Template, single) :
                                  ~Enclosed(Template, p, Len(single)) =>
                                      HasAt(r, NewPos(H, p), single)

C10_Witness ==
    \E c \in AllCallers :
        /\ Succeeded(c)
        /\ self.format = "FString"
        /\ Template = <<LB, LB, "a", RB, RB, LB, LB, "a", RB, RB>>
        /\ input_variables[c] = prompt_args(<< <<(<<"a">>), <<"b">>>> >>)
        /\ result[c].value = <<LB, "b", RB, LB, "b", RB>>

C10_WitnessJinja2 ==
    \E c \in AllCallers :
        /\ Succeeded(c)
        /\ self.format = "Jinja2"
        /\ Template = <<LB, "a", RB, LB, LB, "a", RB, RB>>
        /\ input_variables[c] = prompt_args(<< <<(<<"a">>), <<"b">>>> >>)
        /\ result[c].value = <<LB, "a", RB, "b">>

(* C8: whatever calls of format have run or are running, the template, the *)
(* declared variables and the format of the PromptTemplate are those it    *)
(* was constructed with.                                                   *)
C8_TemplateUnchanged ==
    /\ heap[self.template] = constructed.template
    /\ self.variables = constructed.variables
    /\ self.format = constructed.format

C8_Witness ==
    \E c, d \in AllCallers :
        /\ Succeeded(c)
        /\ result[c].value # Template
        /\ Failed(d)

(* C9: a call returns what format gives for its own map and the template   *)
(* as constructed, however the steps of the other calls fall between its    *)
(* own.                                                                    *)
C9_CallsIndependent ==
    \A c \in AllCallers :
        Returned(c) =>
            result[c] = format(constructed.template, constructed.variables,
                               constructed.format, input_variables[c], iter[c])

C9_Witness ==
    \E c, d \in AllCallers :
        /\ c # d
        /\ Succeeded(c)
        /\ pc[d] = "subst" /\ idx[d] > 1
        /\ input_variables[c] # input_variables[d]
        /\ heap[prompt[d]] # result[c].value
        /\ heap[prompt[d]] # Template

====
